---------------------------- MODULE Spec2Model ----------------------------
(***************************************************************************)
(* A model of gitautotag (src/src/gitautotag/__init__.py): the Tag value   *)
(* object (increment, ordering, rendering, parsing), the tag-name template *)
(* validator and compiler, and the create / create_tag drivers acting on a *)
(* version-control repository with remotes.                                *)
(*                                                                         *)
(* Strings are sequences of characters; a character is a one-element       *)
(* TLA+ string, except the non-ASCII decimal digit U+0663, written         *)
(* "U+0663".  A regular expression is a sequence of atoms.  Python's None  *)
(* is the value None below; version components are never negative.         *)
(***************************************************************************)
EXTENDS Integers, Sequences, FiniteSets, TLC

VARIABLES
    repo,       \* the local repository's tags in listing order: records [name, message]
    remotes,    \* remote name -> the set of tags ([name, message]) of that remote
    op          \* the last operation run: its inputs, the VCS calls it made, its outcome

vars == <<repo, remotes, op>>

----------------------------------------------------------------------------
(* Bounds of the model. *)

\* largest version component of an input Tag
MaxVer == 2
\* longest template, in pieces, given to the validator
MaxPieces == 3
\* most tags a repository starts with
MaxInitTags == 2
\* a run creates a tag only while the repository holds fewer tags than this
MaxTags == 3

----------------------------------------------------------------------------
(* Characters and strings. *)

None == -1

AsciiLetters ==
    {"a","b","c","d","e","f","g","h","i","j","k","l","m",
     "n","o","p","q","r","s","t","u","v","w","x","y","z",
     "A","B","C","D","E","F","G","H","I","J","K","L","M",
     "N","O","P","Q","R","S","T","U","V","W","X","Y","Z"}

AsciiDigits == <<"0","1","2","3","4","5","6","7","8","9">>

\* ARABIC-INDIC DIGIT THREE, a decimal digit (category Nd) that is not ASCII
ArabicThree == "U+0663"

\* what \d matches in a Python 3 str pattern: every Unicode decimal digit
DigitClass == {AsciiDigits[i] : i \in 1..10} \cup {ArabicThree}

\* the value int() gives a decimal digit
DigitValue(c) ==
    IF c = ArabicThree THEN 3 ELSE CHOOSE v \in 0..9 : AsciiDigits[v + 1] = c

RECURSIVE IntToStr(_)
\* str(n) for n >= 0, as str.format renders an integer field
IntToStr(n) ==
    IF n < 10 THEN <<AsciiDigits[n + 1]>>
    ELSE IntToStr(n \div 10) \o <<AsciiDigits[(n % 10) + 1]>>

RECURSIVE StrToInt(_)
\* int(v) for a non-empty string of decimal digits (leading zeros allowed)
StrToInt(s) ==
    IF Len(s) = 1 THEN DigitValue(s[1])
    ELSE 10 * StrToInt(SubSeq(s, 1, Len(s) - 1)) + DigitValue(s[Len(s)])

\* str.startswith
StartsWith(s, p) == Len(s) >= Len(p) /\ SubSeq(s, 1, Len(p)) = p

Drop(s, n) == SubSeq(s, n + 1, Len(s))

Fields == <<"major", "minor", "patch">>

MajorTok == <<"{","m","a","j","o","r","}">>
MinorTok == <<"{","m","i","n","o","r","}">>
PatchTok == <<"{","p","a","t","c","h","}">>
TagnameTok == <<"{","t","a","g","n","a","m","e","}">>

Placeholder(f) ==
    CASE f = "major" -> MajorTok
      [] f = "minor" -> MinorTok
      [] f = "patch" -> PatchTok
      [] f = "tagname" -> TagnameTok

\* BaseConfig.tagname_template's default
DefaultTemplate == MajorTok \o <<".">> \o MinorTok \o <<".">> \o PatchTok

\* BaseConfig.tagmessage_template's default
DefaultMessageTemplate ==
    <<"R","e","l","e","a","s","e"," ">> \o TagnameTok \o <<".">>

----------------------------------------------------------------------------
(* tagname_template_validator *)

\* reg = re.compile('([a-zA-Z\d.:,_-])'); reg.match(c)
LegalChar(c) == c \in AsciiLetters \cup DigitClass \cup {".", ":", ",", "_", "-"}

\* one "if tval.startswith(p)" of the for loop; st = [tval, matches]
StripLeading(st, f) ==
    IF StartsWith(st.tval, Placeholder(f))
    THEN [tval |-> Drop(st.tval, Len(Placeholder(f))),
          matches |-> st.matches \cup {f}]
    ELSE st

\* for p in ('{patch}', '{minor}', '{major}'): each tried once, in this order
StripPass(st) == StripLeading(StripLeading(StripLeading(st, "patch"), "minor"), "major")

\* what the while loop leaves: was an illegal character met, which placeholders were seen
ScanResult(illegal, matches) == [illegal |-> illegal, matches |-> matches]

RECURSIVE ScanTemplate(_)
\* the rest of one round of the while loop, s1 being the state after the for loop
ScanStripped(s1) ==
    IF s1.tval = <<>> THEN ScanResult(FALSE, s1.matches)
    ELSE IF ~LegalChar(Head(s1.tval)) THEN ScanResult(TRUE, s1.matches)
    ELSE ScanTemplate([tval |-> Tail(s1.tval), matches |-> s1.matches])

\* while tval: ...
ScanTemplate(st) ==
    IF st.tval = <<>> THEN ScanResult(FALSE, st.matches)
    ELSE ScanStripped(StripPass(st))

\* the checks after the loop: TRUE when a ValueError is raised
OrderRuleViolated(matches) ==
    /\ matches # {"patch", "minor", "major"}
    /\ \/ "patch" \in matches
       \/ ("minor" \in matches /\ "major" \notin matches)

\* the outcome of the validator once the template is scanned
Validated(value, scan) ==
    IF scan.illegal THEN [err |-> "ValueError"]
    ELSE IF OrderRuleViolated(scan.matches) THEN [err |-> "ValueError"]
    ELSE [err |-> "none", value |-> value]

\* [err |-> "none", value |-> the template] or [err |-> "ValueError"]
tagname_template_validator(value) ==
    IF value = <<>> THEN [err |-> "ValueError"]
    ELSE Validated(value, ScanTemplate([tval |-> value, matches |-> {}]))

----------------------------------------------------------------------------
(* Configuration: the values the ConfigDescriptors of a config object give. *)

\* ConfigDescriptor.__get__ of BaseConfig.tagname_template: the raw value, validated
TagnameTemplate(cfg) == tagname_template_validator(cfg.tagname_template)

\* the step of a Config / MajorVersionConfig / MinorVersionConfig / PatchVersionConfig
Steps == {"major", "minor", "patch"}

----------------------------------------------------------------------------
(* BaseConfig.tag_regex and re.match *)

EscapedDot == "\\."

GroupAtom(f) ==
    CASE f = "major" -> "(?P<major>\\d+)"
      [] f = "minor" -> "(?P<minor>\\d+)"
      [] f = "patch" -> "(?P<patch>\\d+)"

IsGroupAtom(a) == a \in {"(?P<major>\\d+)", "(?P<minor>\\d+)", "(?P<patch>\\d+)"}

GroupName(a) ==
    CASE a = "(?P<major>\\d+)" -> "major"
      [] a = "(?P<minor>\\d+)" -> "minor"
      [] a = "(?P<patch>\\d+)" -> "patch"

\* the template with its dots left as they are
EscapeDots_Unescaped(tmpl) == tmpl

\* tmpl.replace('.', '\.')
EscapeDots(tmpl) == [i \in 1..Len(tmpl) |-> IF tmpl[i] = "." THEN EscapedDot ELSE tmpl[i]]

RECURSIVE ReplaceAll(_, _, _)
\* str.replace(old, new) where new is one atom: left to right, non-overlapping
ReplaceAll(s, old, new) ==
    IF s = <<>> THEN <<>>
    ELSE IF StartsWith(s, old) THEN <<new>> \o ReplaceAll(Drop(s, Len(old)), old, new)
    ELSE <<Head(s)>> \o ReplaceAll(Tail(s), old, new)

\* for p in ('minor', 'patch', 'major'): tmpl = tmpl.replace('{p}', '(?P<p>\d+)')
ReplacePlaceholders(tmpl) ==
    ReplaceAll(
        ReplaceAll(
            ReplaceAll(tmpl, MinorTok, GroupAtom("minor")),
            PatchTok, GroupAtom("patch")),
        MajorTok, GroupAtom("major"))

\* the source of the pattern: dots escaped, then the placeholders substituted
RegexSource(tmpl) == ReplacePlaceholders(EscapeDots(tmpl))

\* re.compile raises re.error when a group name is defined twice
DuplicateGroup(re) ==
    \E i, j \in 1..Len(re) : i < j /\ IsGroupAtom(re[i]) /\ re[i] = re[j]

\* re.compile(tmpl)
re_compile(src) ==
    IF DuplicateGroup(src) THEN [err |-> "re.error"]
    ELSE [err |-> "none", regex |-> src]

\* tag_regex once the template is read: t is what the descriptor gave
CompileTemplate(t) ==
    IF t.err # "none" THEN [err |-> t.err]
    ELSE re_compile(RegexSource(t.value))

\* [err |-> "none", regex |-> atoms], or the error the property raises
tag_regex(cfg) == CompileTemplate(TagnameTemplate(cfg))

\* an atom that is no group, against one character
AtomMatches(a, c) ==
    IF a = EscapedDot THEN c = "."
    ELSE IF a = "." THEN TRUE
    ELSE a = c

RECURSIVE DigitRun(_, _)
\* the number of consecutive \d characters of s from position j
DigitRun(s, j) ==
    IF j > Len(s) THEN 0
    ELSE IF s[j] \notin DigitClass THEN 0
    ELSE 1 + DigitRun(s, j + 1)

NoGroups == [f \in {} |-> <<>>]

NoMatch == [ok |-> FALSE]

SetMax(S) == CHOOSE x \in S : \A y \in S : y <= x

\* a match of the rest of the pattern, with the group of atom a added
WithGroup(a, text, rest) ==
    [ok |-> TRUE, groups |-> (GroupName(a) :> text) @@ rest.groups]

RECURSIVE MatchAt(_, _, _, _)
\* \d+ is greedy: of the lengths ks with which the rest matches, the longest
TakeLongest(re, i, s, j, ks) ==
    IF ks = {} THEN NoMatch
    ELSE WithGroup(re[i], SubSeq(s, j, j + SetMax(ks) - 1),
                   MatchAt(re, i + 1, s, j + SetMax(ks)))

\* the backtracking matcher: atoms re[i..] against s from position j; the
\* match need not reach the end of s
MatchAt(re, i, s, j) ==
    IF i > Len(re) THEN [ok |-> TRUE, groups |-> NoGroups]
    ELSE IF IsGroupAtom(re[i])
    THEN TakeLongest(re, i, s, j,
                     {k \in 1..DigitRun(s, j) : MatchAt(re, i + 1, s, j + k).ok})
    ELSE IF j > Len(s) THEN NoMatch
    ELSE IF AtomMatches(re[i], s[j]) THEN MatchAt(re, i + 1, s, j + 1)
    ELSE NoMatch

\* the length of the text the group f of the match m holds
GroupLen(m, f) == IF f \in DOMAIN m.groups THEN Len(m.groups[f]) ELSE 0

\* the number of characters of the string the match m of re covers
Covered(re, m) ==
    Cardinality({i \in 1..Len(re) : ~IsGroupAtom(re[i])})
        + GroupLen(m, "major") + GroupLen(m, "minor") + GroupLen(m, "patch")

\* m, if it is a match that covers a string of n characters to its end
WholeOnly(re, m, n) == IF m.ok /\ Covered(re, m) = n THEN m ELSE NoMatch

\* the match required to reach the end of the string
ReMatch_WholeString(re, s) == WholeOnly(re, MatchAt(re, 1, s, 1), Len(s))

\* pattern.match(string): anchored at the start of the string only
ReMatch(re, s) == MatchAt(re, 1, s, 1)

----------------------------------------------------------------------------
(* Tag *)

\* Tag.__init__(config, major=None, minor=None, patch=None)
Tag(major, minor, patch) == [major |-> major, minor |-> minor, patch |-> patch]

\* versiondict with the missing components filled with 1
versiondict_DefaultOne(t) ==
    [f \in {"major", "minor", "patch"} |-> IF t[f] # None THEN t[f] ELSE 1]

\* Tag.versiondict: missing components filled with 0
versiondict(t) == [f \in {"major", "minor", "patch"} |-> IF t[f] # None THEN t[f] ELSE 0]

\* the checks with the second one looking at major only
validate_raises_PatchNeedsMajor(t) ==
    \/ (t.minor # None /\ t.major = None)
    \/ (t.patch # None /\ t.major = None)

\* Tag.validate: TRUE when it raises ValueError
validate_raises(t) ==
    \/ (t.minor # None /\ t.major = None)
    \/ (t.patch # None /\ (t.minor = None \/ t.major = None))

\* Tag.validate: the error it raises ("none": it returns)
validate(t) == IF validate_raises(t) THEN [err |-> "ValueError"] ELSE [err |-> "none"]

\* the receiver after validate: the method reads self.major, self.minor and
\* self.patch and assigns to none of them
validate_self(t) == t

\* if kwargs[step] is None: kwargs[step] = 0
DefaultStep(kwargs, step) ==
    IF kwargs[step] = None THEN [kwargs EXCEPT ![step] = 0] ELSE kwargs

\* kwargs[step] += 1
Bump(kwargs, step) == [kwargs EXCEPT ![step] = @ + 1]

\* get_incremented without the resets
ResetBelow_Kept(kwargs, step) == kwargs

\* the resets of the less significant components
ResetBelow(kwargs, step) ==
    IF step = "major" THEN [kwargs EXCEPT !["minor"] = 0, !["patch"] = 0]
    ELSE IF step = "minor" THEN [kwargs EXCEPT !["patch"] = 0]
    ELSE kwargs

\* self.__class__(self.config, **kwargs)
TagOf(kwargs) == Tag(kwargs["major"], kwargs["minor"], kwargs["patch"])

\* get_incremented without the check of the step: a step that is none of the
\* three is taken as patch
get_incremented_AnyStep(t, step) ==
    IF step \notin {"major", "minor", "patch"}
    THEN [err |-> "none", tag |-> TagOf(Bump(versiondict(t), "patch"))]
    ELSE [err |-> "none",
          tag |-> TagOf(ResetBelow(Bump(DefaultStep(versiondict(t), step), step), step))]

\* Tag.get_incremented with config.step = step:
\* [err |-> "none", tag |-> the new Tag] or [err |-> "ValueError"]
get_incremented(t, step) ==
    IF step \notin {"major", "minor", "patch"} THEN [err |-> "ValueError"]
    ELSE [err |-> "none",
          tag |-> TagOf(ResetBelow(Bump(DefaultStep(versiondict(t), step), step), step))]

\* the receiver if kwargs were the receiver's own attributes: the
\* assignments to kwargs show in it
get_incremented_self_Aliased(t, step) ==
    IF step \notin {"major", "minor", "patch"} THEN t
    ELSE TagOf(ResetBelow(Bump(DefaultStep(versiondict(t), step), step), step))

\* the receiver after get_incremented: kwargs is the dict versiondict built
\* anew, and every assignment of the method goes to kwargs
get_incremented_self(t, step) == t

\* the Tag after its caller stored into the mapping d that versiondict
\* returned: dct = dict() is a mapping of its own
versiondict_self(t, d) == t

RECURSIVE CompFrom(_, _, _)
\* the loop with an absent component read as 0
CompFrom_AbsentZero(self, other, i) ==
    IF i > Len(Fields) THEN 0
    ELSE LET sf == IF self[Fields[i]] = None THEN 0 ELSE self[Fields[i]]
             of == IF other[Fields[i]] = None THEN 0 ELSE other[Fields[i]]
         IN IF sf > of THEN 1
            ELSE IF sf < of THEN -1
            ELSE CompFrom(self, other, i + 1)

\* the loop of Tag.__gen_comp__ from field number i
CompFrom(self, other, i) ==
    IF i > Len(Fields) THEN 0
    ELSE LET sf == self[Fields[i]]
             of == other[Fields[i]]
         IN IF sf # None /\ of # None THEN
                IF sf > of THEN 1
                ELSE IF sf < of THEN -1
                ELSE CompFrom(self, other, i + 1)
            ELSE IF sf # None THEN 1
            ELSE IF of # None THEN -1
            ELSE CompFrom(self, other, i + 1)

\* the comparison with the loop stopping before patch
gen_comp_NoPatch(self, other) ==
    CompFrom(Tag(self.major, self.minor, None), Tag(other.major, other.minor, None), 1)

\* Tag.__gen_comp__
gen_comp(self, other) == CompFrom(self, other, 1)

\* Tag.__lt__, __le__, __eq__, __ne__, __gt__, __ge__
lt(self, other) == gen_comp(self, other) < 0
le(self, other) == gen_comp(self, other) <= 0
eq(self, other) == gen_comp(self, other) = 0
ne(self, other) == gen_comp(self, other) # 0
gt(self, other) == gen_comp(self, other) > 0
ge(self, other) == gen_comp(self, other) >= 0

\* the replacement field a template starts with, "" when it starts with none
LeadingField(tmpl, names) ==
    IF \E f \in names : StartsWith(tmpl, Placeholder(f))
    THEN CHOOSE f \in names : StartsWith(tmpl, Placeholder(f))
    ELSE ""

RECURSIVE Format(_, _, _)
\* the rest of Format when tmpl starts with the field f ("": with a plain character)
FormatField(tmpl, names, values, f) ==
    IF f = "" THEN <<Head(tmpl)>> \o Format(Tail(tmpl), names, values)
    ELSE values[f] \o Format(Drop(tmpl, Len(Placeholder(f))), names, values)

\* str.format(**values) on a template whose replacement fields are among names:
\* each field is replaced by its value's text, every other character is kept
Format(tmpl, names, values) ==
    IF tmpl = <<>> THEN <<>>
    ELSE FormatField(tmpl, names, values, LeadingField(tmpl, names))

\* the texts str.format puts for the fields of a versiondict
VersionTexts(vd) == [f \in {"major", "minor", "patch"} |-> IntToStr(vd[f])]

\* Tag.name once the template is read: tm is what the descriptor gave
RenderName(tm, t) ==
    IF tm.err # "none" THEN [err |-> tm.err]
    ELSE [err |-> "none",
          value |-> Format(tm.value, {"major", "minor", "patch"},
                           VersionTexts(versiondict(t)))]

\* Tag.name: [err |-> "none", value |-> the name] or the template's error
name(t, cfg) == RenderName(TagnameTemplate(cfg), t)

\* Tag.message once the name n is rendered: vdict['tagname'] = self.name
RenderMessage(n, t, cfg) ==
    IF n.err # "none" THEN [err |-> n.err]
    ELSE [err |-> "none",
          value |-> Format(cfg.tagmessage_template,
                           {"major", "minor", "patch", "tagname"},
                           ("tagname" :> n.value) @@ VersionTexts(versiondict(t)))]

\* Tag.message
message(t, cfg) == RenderMessage(name(t, cfg), t, cfg)

\* int(v) of the group f of a match, None for a group the pattern lacks
GroupInt(m, f) == IF f \in DOMAIN m.groups THEN StrToInt(m.groups[f]) ELSE None

\* get_from_string once the string is matched: m is the match (or no match)
TagOfMatch(m) ==
    IF ~m.ok THEN [err |-> "Exception"]
    ELSE [err |-> "none",
          tag |-> Tag(GroupInt(m, "major"), GroupInt(m, "minor"), GroupInt(m, "patch"))]

\* get_from_string once config.tag_regex is read: r is the pattern (or its error)
MatchWith(r, tagstring) ==
    IF r.err # "none" THEN [err |-> r.err]
    ELSE TagOfMatch(ReMatch(r.regex, tagstring))

\* Tag.get_from_string: [err |-> "none", tag |-> Tag], or the error raised
get_from_string(tagstring, cfg) == MatchWith(tag_regex(cfg), tagstring)

----------------------------------------------------------------------------
(* The repository and Tag.get_tags *)

\* [t.name for t in config.repo.tags], in listing order
TagNames(r) == [i \in 1..Len(r) |-> r[i].name]

NameSet(tags) == {t.name : t \in tags}

RECURSIVE SortInto(_, _)
\* one insertion of alltags.sort(): t goes behind the tags that are not greater
SortInto(sorted, t) ==
    IF sorted = <<>> THEN <<t>>
    ELSE IF lt(t, sorted[Len(sorted)])
         THEN SortInto(SubSeq(sorted, 1, Len(sorted) - 1), t) \o <<sorted[Len(sorted)]>>
         ELSE sorted \o <<t>>

RECURSIVE SortTags(_)
\* alltags.sort(): ascending under __lt__, equal tags keep their order
SortTags(tags) ==
    IF tags = <<>> THEN <<>>
    ELSE SortInto(SortTags(SubSeq(tags, 1, Len(tags) - 1)), tags[Len(tags)])

\* alltags.append(tag), rest being what the later rounds of the loop give
Prepend(tag, rest) ==
    IF rest.err # "none" THEN rest
    ELSE [err |-> "none", tags |-> <<tag>> \o rest.tags]

RECURSIVE ParseAll(_, _, _, _)
\* the round that skips an unparseable name whatever raise_exception is
Collect_Skip(g, names, i, cfg, raise_exception) ==
    IF g.err # "none" THEN ParseAll(names, i + 1, cfg, raise_exception)
    ELSE Prepend(g.tag, ParseAll(names, i + 1, cfg, raise_exception))

\* one round of the loop of get_tags: g is what get_from_string gave for names[i]
Collect(g, names, i, cfg, raise_exception) ==
    IF g.err # "none" THEN
        IF raise_exception THEN [err |-> "CannotParseTagError"]
        ELSE ParseAll(names, i + 1, cfg, raise_exception)
    ELSE Prepend(g.tag, ParseAll(names, i + 1, cfg, raise_exception))

\* the loop of get_tags over the names from position i
ParseAll(names, i, cfg, raise_exception) ==
    IF i > Len(names) THEN [err |-> "none", tags |-> <<>>]
    ELSE Collect(get_from_string(names[i], cfg), names, i, cfg, raise_exception)

\* get_tags without the sort
SortIf_Unsorted(all, sorted) == all

\* if sorted: alltags.sort()
SortIf(all, sorted) ==
    IF all.err # "none" THEN all
    ELSE IF sorted THEN [err |-> "none", tags |-> SortTags(all.tags)]
    ELSE all

\* Tag.get_tags(config, sorted, raise_exception) on a repository listing r
get_tags(cfg, r, sorted, raise_exception) ==
    SortIf(ParseAll(TagNames(r), 1, cfg, raise_exception), sorted)

----------------------------------------------------------------------------
(* Tag.create and create_tag.  fail names the VCS call that fails in this   *)
(* run ("none": no call fails); a new tag is listed behind the others.      *)

\* the outcome of a run: the error raised ("none": none), the repository and
\* the remotes it leaves, the VCS calls it made
Outcome(err, r, rem, calls) == [err |-> err, repo |-> r, remotes |-> rem, calls |-> calls]

\* repo.remote(name).push(newtag): the remote takes the tag unless it has the name
Pushed(rem, remote_name, newtag) ==
    IF newtag.name \in NameSet(rem[remote_name]) THEN rem
    ELSE [rem EXCEPT ![remote_name] = @ \cup {newtag}]

\* the push made whatever push_after_tagging is
PushNew_Always(newtag, cfg, r1, rem, fail) ==
    IF fail = "push"
    THEN Outcome("GitCommandError", r1, rem, <<"listTags", "createTag", "push">>)
    ELSE Outcome("none", r1, Pushed(rem, cfg.remote_name, newtag),
                 <<"listTags", "createTag", "push">>)

\* the push with the new tag, the last of r1, taken back when the push fails
PushNew_RolledBack(newtag, cfg, r1, rem, fail) ==
    IF ~cfg.push_after_tagging
    THEN Outcome("none", r1, rem, <<"listTags", "createTag">>)
    ELSE IF fail = "push"
    THEN Outcome("GitCommandError", SubSeq(r1, 1, Len(r1) - 1), rem,
                 <<"listTags", "createTag", "push">>)
    ELSE Outcome("none", r1, Pushed(rem, cfg.remote_name, newtag),
                 <<"listTags", "createTag", "push">>)

\* if self.config.push_after_tagging: ...push(newtag), with newtag created
PushNew(newtag, cfg, r1, rem, fail) ==
    IF ~cfg.push_after_tagging
    THEN Outcome("none", r1, rem, <<"listTags", "createTag">>)
    ELSE IF fail = "push"
    THEN Outcome("GitCommandError", r1, rem, <<"listTags", "createTag", "push">>)
    ELSE Outcome("none", r1, Pushed(rem, cfg.remote_name, newtag),
                 <<"listTags", "createTag", "push">>)

\* create without the check of the existing names
CreateNamed_NoCheck(msg, nm, cfg, r, rem, fail) ==
    IF msg.err # "none" THEN Outcome(msg.err, r, rem, <<>>)
    ELSE IF fail = "createTag"
    THEN Outcome("GitCommandError", r, rem, <<"listTags", "createTag">>)
    ELSE PushNew([name |-> nm.value, message |-> msg.value], cfg,
                 Append(r, [name |-> nm.value, message |-> msg.value]), rem, fail)

\* create going on to the push after createTag failed
CreateNamed_PushAfterFailure(msg, nm, cfg, r, rem, fail) ==
    IF msg.err # "none" THEN Outcome(msg.err, r, rem, <<>>)
    ELSE IF \E i \in 1..Len(r) : r[i].name = nm.value
    THEN Outcome("Exception", r, rem, <<"listTags">>)
    ELSE IF fail = "createTag"
    THEN PushNew([name |-> nm.value, message |-> msg.value], cfg, r, rem, fail)
    ELSE PushNew([name |-> nm.value, message |-> msg.value], cfg,
                 Append(r, [name |-> nm.value, message |-> msg.value]), rem, fail)

\* Tag.create once message and name are rendered
CreateNamed(msg, nm, cfg, r, rem, fail) ==
    IF msg.err # "none" THEN Outcome(msg.err, r, rem, <<>>)
    ELSE IF \E i \in 1..Len(r) : r[i].name = nm.value
    THEN Outcome("Exception", r, rem, <<"listTags">>)
    ELSE IF fail = "createTag"
    THEN Outcome("GitCommandError", r, rem, <<"listTags", "createTag">>)
    ELSE PushNew([name |-> nm.value, message |-> msg.value], cfg,
                 Append(r, [name |-> nm.value, message |-> msg.value]), rem, fail)

\* Tag.create
create(t, cfg, r, rem, fail) == CreateNamed(message(t, cfg), name(t, cfg), cfg, r, rem, fail)

RECURSIVE AppendAll(_, _)
\* the listings of r with the tags of S listed behind, in any order
AppendAll(r, S) ==
    IF S = {} THEN {r}
    ELSE UNION {AppendAll(Append(r, x), S \ {x}) : x \in S}

\* repo.remote(name).pull(): the remote's tags whose names the repository lacks come in
Pulled(r, rem, remote_name) ==
    AppendAll(r, {t \in rem[remote_name] : \A i \in 1..Len(r) : r[i].name # t.name})

\* the calls of create_tag: the pull, the listing of get_tags, those of create
WithCalls(out, pre) == [out EXCEPT !.calls = pre \o <<"listTags">> \o @]

\* new_tag.create(), new_tag being what get_incremented gave
CreateNew(new_tag, cfg, r1, rem, fail, pre) ==
    IF new_tag.err # "none" THEN Outcome(new_tag.err, r1, rem, pre \o <<"listTags">>)
    ELSE WithCalls(create(new_tag.tag, cfg, r1, rem, fail), pre)

\* the run taking the first of the sorted tags for the latest
TagLatest_First(tags, cfg, r1, rem, fail, pre) ==
    IF tags.err # "none" THEN Outcome(tags.err, r1, rem, pre \o <<"listTags">>)
    ELSE IF tags.tags = <<>> THEN Outcome("IndexError", r1, rem, pre \o <<"listTags">>)
    ELSE CreateNew(get_incremented(tags.tags[1], cfg.step), cfg, r1, rem, fail, pre)

\* latest_tag = tags[-1]; new_tag = latest_tag.get_incremented(); new_tag.create()
TagLatest(tags, cfg, r1, rem, fail, pre) ==
    IF tags.err # "none" THEN Outcome(tags.err, r1, rem, pre \o <<"listTags">>)
    ELSE IF tags.tags = <<>> THEN Outcome("IndexError", r1, rem, pre \o <<"listTags">>)
    ELSE CreateNew(get_incremented(tags.tags[Len(tags.tags)], cfg.step),
                   cfg, r1, rem, fail, pre)

\* create_tag listing the tags it had before the pull
create_tag_ListFirst(cfg, r, r1, rem, fail) ==
    IF cfg.pull_before_tagging
    THEN IF fail = "pull" THEN Outcome("GitCommandError", r, rem, <<"pull">>)
         ELSE TagLatest(get_tags(cfg, r, TRUE, TRUE), cfg, r1, rem, fail, <<"pull">>)
    ELSE TagLatest(get_tags(cfg, r1, TRUE, TRUE), cfg, r1, rem, fail, <<>>)

\* create_tag(config); r1 is the listing after the pull (r itself without a pull)
create_tag(cfg, r, r1, rem, fail) ==
    IF cfg.pull_before_tagging
    THEN IF fail = "pull" THEN Outcome("GitCommandError", r, rem, <<"pull">>)
         ELSE TagLatest(get_tags(cfg, r1, TRUE, TRUE), cfg, r1, rem, fail, <<"pull">>)
    ELSE TagLatest(get_tags(cfg, r1, TRUE, TRUE), cfg, r1, rem, fail, <<>>)

----------------------------------------------------------------------------
(* The inputs of the runs. *)

Str001 == <<"0", ".", "0", ".", "1">>
Str123 == <<"1", ".", "2", ".", "3">>
\* names with something behind the version
Str123rc1 == Str123 \o <<"-", "r", "c", "1">>
Str1234 == Str123 \o <<".", "4">>
Str1234NoDot == Str123 \o <<"4">>
Str100 == <<"1", ".", "0", ".", "0">>
StrFoobar == <<"f", "o", "o", "b", "a", "r">>

\* the message of a tag made by hand (git tag -m)
ManualMessage == <<"T", "e", "s", "t", "t", "a", "g">>

ManualTag(n) == [name |-> n, message |-> ManualMessage]

\* names of tags a repository may hold before the first run
NamePool == {Str001, <<"0", "9">>, <<"0", "1", "0">>}

\* names of the tags get_tags may find
ReadPool == NamePool \cup {StrFoobar, Str123rc1}

\* the tag names of TestTag.test_get_tags, in the order they are created
ExampleNames ==
    << <<"0", ".", "0", ".", "0">>, Str001, <<"0", ".", "1", ".", "1">>,
       <<"0", ".", "0", ".", "2">>, <<"1", ".", "0", ".", "1">>, Str100, StrFoobar >>

ExampleRepo == [i \in 1..Len(ExampleNames) |-> ManualTag(ExampleNames[i])]

RECURSIVE ListingsUpTo(_, _)
\* the listings of at most n names of pool
ListingsUpTo(n, pool) ==
    IF n = 0 THEN {<<>>}
    ELSE LET shorter == ListingsUpTo(n - 1, pool) IN
         shorter \cup {Append(q, ManualTag(x)) : q \in shorter, x \in pool}

NoRepeat(q) == \A i, j \in 1..Len(q) : i # j => q[i].name # q[j].name

InitialRepos == {q \in ListingsUpTo(MaxInitTags, NamePool) : NoRepeat(q)} \cup {ExampleRepo}

RemoteNames == {"origin", "upstream"}

InitialRemotes ==
    {[n \in RemoteNames |->
         IF n = "origin" THEN {ManualTag(<<"0", ".", "0", ".", "0">>)} ELSE {}]}

\* a second template the validator accepts, and one it rejects
MinorMajorTemplate == MinorTok \o MajorTok
PatchOnlyTemplate == PatchTok

TemplateChoices == {DefaultTemplate, MinorMajorTemplate, PatchOnlyTemplate}

\* every combination of the settings
AllConfigs ==
    [tagname_template : TemplateChoices,
     tagmessage_template : {DefaultMessageTemplate},
     step : Steps \cup {"build"},
     pull_before_tagging : BOOLEAN,
     push_after_tagging : BOOLEAN,
     remote_name : {"origin"}]

\* the configurations of a run: a template the validator rejects and a step
\* that is none of the three come with the default of every other setting
Configs ==
    {cfg \in AllConfigs :
        /\ cfg.tagname_template = PatchOnlyTemplate =>
               (cfg.step = "minor" /\ ~cfg.pull_before_tagging /\ ~cfg.push_after_tagging)
        /\ cfg.step = "build" =>
               (/\ cfg.tagname_template = DefaultTemplate
                /\ ~cfg.pull_before_tagging /\ ~cfg.push_after_tagging)}

\* a config object whose tagname_template is tmpl, every other setting at its default
ConfigOf(tmpl) ==
    [tagname_template |-> tmpl,
     tagmessage_template |-> DefaultMessageTemplate,
     step |-> "minor",
     pull_before_tagging |-> FALSE,
     push_after_tagging |-> FALSE,
     remote_name |-> "origin"]

\* the configurations of the runs that read neither step nor pull_before_tagging
TagConfigs == {cfg \in Configs : cfg.step = "minor" /\ ~cfg.pull_before_tagging}

\* the configurations of the runs that only read the repository
ReadConfigs == {cfg \in TagConfigs : ~cfg.push_after_tagging}

\* the Tags create() is called on directly
CreateInputs == {Tag(0, 0, 1), Tag(1, None, None)}

VcsFailures == {"none", "pull", "createTag", "push"}

\* the calls a run under cfg can reach, as the ones that can fail in it
FailuresOf(cfg) ==
    {f \in VcsFailures :
        /\ f = "pull" => cfg.pull_before_tagging
        /\ f = "push" => cfg.push_after_tagging}

Idle == [name |-> "idle"]

\* the caller has the outcome of the run; the next run can start
Return ==
    /\ op.name # "idle"
    /\ op' = Idle
    /\ UNCHANGED <<repo, remotes>>

----------------------------------------------------------------------------
(* The repository specification: runs of create, create_tag and get_tags. *)

Init ==
    /\ repo \in InitialRepos
    /\ remotes \in InitialRemotes
    /\ op = Idle

Before == [repo |-> repo, remotes |-> remotes]

\* the run made the VCS call that fails in it ("none": no call fails)
Reached(fail, calls) == fail = "none" \/ \E i \in 1..Len(calls) : calls[i] = fail

\* tag.create() for a Tag built by the caller
Create ==
    /\ op.name = "idle"
    /\ \E t \in CreateInputs, cfg \in TagConfigs :
      \E fail \in FailuresOf(cfg) :
        \E out \in {create(t, cfg, repo, remotes, fail)} :
            /\ Reached(fail, out.calls)
            /\ Len(out.repo) <= MaxTags \/ out.repo = repo
            /\ repo' = out.repo
            /\ remotes' = out.remotes
            /\ op' = [name |-> "create", tag |-> t, cfg |-> cfg, before |-> Before,
                      fail |-> fail, err |-> out.err, calls |-> out.calls]

\* create_tag(config)
CreateTag ==
    /\ op.name = "idle"
    /\ \E cfg \in Configs :
      \E fail \in FailuresOf(cfg) :
        \E r1 \in IF cfg.pull_before_tagging /\ fail # "pull"
                  THEN Pulled(repo, remotes, cfg.remote_name) ELSE {repo} :
            \E out \in {create_tag(cfg, repo, r1, remotes, fail)} :
                /\ Reached(fail, out.calls)
                /\ Len(out.repo) <= MaxTags \/ out.repo = repo
                /\ repo' = out.repo
                /\ remotes' = out.remotes
                /\ op' = [name |-> "create_tag", cfg |-> cfg, before |-> Before,
                          pulled |-> r1, fail |-> fail, err |-> out.err,
                          calls |-> out.calls]

Next == Create \/ CreateTag \/ Return

Spec == Init /\ [][Next]_vars

----------------------------------------------------------------------------
(* The reading specification: runs of get_tags on repositories whose tags   *)
(* the VCS lists in any order.                                              *)

\* most tags of a repository that is only read
MaxListed == 3

InitRead ==
    /\ repo \in {q \in ListingsUpTo(MaxListed, ReadPool) : NoRepeat(q)} \cup {ExampleRepo}
    /\ remotes \in InitialRemotes
    /\ op = Idle

\* Tag.get_tags(config, sorted, raise_exception)
GetTags ==
    /\ op.name = "idle"
    /\ \E cfg \in ReadConfigs, sorted \in BOOLEAN, raise_exception \in BOOLEAN :
        \E out \in {get_tags(cfg, repo, sorted, raise_exception)} :
            /\ op' = [name |-> "get_tags", cfg |-> cfg, sorted |-> sorted,
                      raise_exception |-> raise_exception, before |-> Before,
                      out |-> out]
            /\ UNCHANGED <<repo, remotes>>

\* the strings get_from_string is called on
TagStrings == ReadPool \cup {Str100, Str123, Str1234, Str1234NoDot}

\* Tag.get_from_string(tagstring, config)
GetFromString ==
    /\ op.name = "idle"
    /\ \E tagstring \in TagStrings, cfg \in ReadConfigs :
        op' = [name |-> "get_from_string", tagstring |-> tagstring, cfg |-> cfg,
               out |-> get_from_string(tagstring, cfg)]
    /\ UNCHANGED <<repo, remotes>>

NextRead == GetTags \/ GetFromString \/ Return

SpecRead == InitRead /\ [][NextRead]_vars

----------------------------------------------------------------------------
(* The Tag specification: get_incremented and the comparisons on Tags built *)
(* by the caller, with any combination of present and absent components.    *)

Components == {None} \cup 0..MaxVer

\* the Tag of the spec's increment example
Tag159 == Tag(1, 5, 9)

InputTags == {Tag(x, y, z) : x \in Components, y \in Components, z \in Components}
                 \cup {Tag159}

InitTag ==
    /\ repo = <<>>
    /\ remotes = [n \in RemoteNames |-> {}]
    /\ op = Idle

\* tag.get_incremented() under a config whose step is step
GetIncremented ==
    /\ op.name = "idle"
    /\ \E t \in InputTags, step \in Steps \cup {"build"} :
        \E out \in {get_incremented(t, step)} :
            op' = [name |-> "get_incremented", tag |-> t, step |-> step,
                   err |-> out.err, out |-> out,
                   receiver |-> get_incremented_self(t, step)]
    /\ UNCHANGED <<repo, remotes>>

\* tag.validate()
Validate ==
    /\ op.name = "idle"
    /\ \E t \in InputTags :
        op' = [name |-> "validate", tag |-> t, out |-> validate(t),
               receiver |-> validate_self(t)]
    /\ UNCHANGED <<repo, remotes>>

\* the comparisons of two Tags, each way round
Compare ==
    /\ op.name = "idle"
    /\ \E a \in InputTags, b \in InputTags :
        op' = [name |-> "compare", self |-> a, other |-> b,
               comp |-> gen_comp(a, b), rev |-> gen_comp(b, a),
               lt |-> lt(a, b), le |-> le(a, b), eq |-> eq(a, b),
               ne |-> ne(a, b), gt |-> gt(a, b), ge |-> ge(a, b)]
    /\ UNCHANGED <<repo, remotes>>

\* the Tag of TestTag.test_name
Tag123 == Tag(1, 2, 3)

\* the templates the names are rendered under
NameTemplates == {DefaultTemplate, MinorMajorTemplate, <<"V">> \o MajorTok}

\* tag.versiondict and tag.name
NameTag ==
    /\ op.name = "idle"
    /\ \E t \in InputTags \cup {Tag123}, tmpl \in NameTemplates :
        op' = [name |-> "name", tag |-> t, template |-> tmpl,
               versiondict |-> versiondict(t), out |-> name(t, ConfigOf(tmpl))]
    /\ UNCHANGED <<repo, remotes>>

NextTag == GetIncremented \/ Validate \/ Compare \/ NameTag \/ Return

SpecTag == InitTag /\ [][NextTag]_vars

----------------------------------------------------------------------------
(* The template specification: the validator on templates put together     *)
(* from placeholders, parts of placeholders and single characters.          *)

Pieces ==
    {MajorTok, MinorTok, PatchTok,
     <<"{", "s", "o", "m", "e", "t", "h", "i", "n", "g", "}">>,
     <<"{", "m", "a">>, <<"j", "o", "r", "}">>,
     <<"V">>, <<"7">>, <<".">>, <<",">>, <<";">>, <<" ">>, <<ArabicThree>>}

RECURSIVE TemplatesUpTo(_)
\* the templates of at most n pieces
TemplatesUpTo(n) ==
    IF n = 0 THEN {<<>>}
    ELSE TemplatesUpTo(n - 1) \cup {t \o p : t \in TemplatesUpTo(n - 1), p \in Pieces}

InitTemplate ==
    /\ repo = <<>>
    /\ remotes = [n \in RemoteNames |-> {}]
    /\ op = Idle

\* tagname_template_validator(value)
ValidateTemplate ==
    /\ op.name = "idle"
    /\ \E value \in TemplatesUpTo(MaxPieces) :
        \E out \in {tagname_template_validator(value)} :
            op' = [name |-> "tagname_template_validator", value |-> value,
                   err |-> out.err,
                   result |-> IF out.err = "none" THEN out.value ELSE <<>>]
    /\ UNCHANGED <<repo, remotes>>

\* the pieces of the templates that are rendered and parsed back
RoundTripPieces == {MajorTok, MinorTok, PatchTok, <<"V">>, <<"7">>, <<".">>}

RECURSIVE TemplatesFrom(_, _)
\* the templates of at most n of the given pieces
TemplatesFrom(pieces, n) ==
    IF n = 0 THEN {<<>>}
    ELSE TemplatesFrom(pieces, n - 1)
             \cup {t \o p : t \in TemplatesFrom(pieces, n - 1), p \in pieces}

\* the version numbers rendered: the small ones and one of two digits
RoundTripVersions == 0..MaxVer \cup {10}

\* Tag.get_from_string(tag.name, config), n being what tag.name gave
ParseRendered(n, cfg) ==
    IF n.err # "none" THEN [err |-> n.err]
    ELSE get_from_string(n.value, cfg)

\* a Tag is named under a template the validator accepts, and the name is
\* parsed back under the same config
RoundTrip ==
    /\ op.name = "idle"
    /\ \E tmpl \in TemplatesFrom(RoundTripPieces, MaxPieces) :
        /\ tagname_template_validator(tmpl).err = "none"
        /\ \E x \in RoundTripVersions, y \in RoundTripVersions, z \in RoundTripVersions :
            op' = [name |-> "round_trip", template |-> tmpl, v |-> Tag(x, y, z),
                   compiled |-> tag_regex(ConfigOf(tmpl)).err,
                   rendered |-> name(Tag(x, y, z), ConfigOf(tmpl)),
                   parsed |-> ParseRendered(name(Tag(x, y, z), ConfigOf(tmpl)),
                                            ConfigOf(tmpl))]
    /\ UNCHANGED <<repo, remotes>>

\* how a name is turned into the string that is matched: as it is, with x or
\* 7 written for each dot, with a written for each digit
Rewritings == {"same", "dot to x", "dot to 7", "digit to a"}

Rewritten(s, how) ==
    [i \in 1..Len(s) |->
        CASE how = "dot to x" /\ s[i] = "." -> "x"
          [] how = "dot to 7" /\ s[i] = "." -> "7"
          [] how = "digit to a" /\ s[i] \in DigitClass -> "a"
          [] OTHER -> s[i]]

\* reg.match(teststr), reg being what config.tag_regex gave
MatchCompiled(r, teststr) ==
    IF r.err # "none" THEN NoMatch ELSE ReMatch(r.regex, teststr)

\* config.tag_regex is read under a template the validator accepts and
\* matched against a string, as in TestBaseConfig.test_tag_regex
TagRegex ==
    /\ op.name = "idle"
    /\ \E tmpl \in TemplatesFrom(RoundTripPieces, MaxPieces) \cup {DefaultTemplate} :
        /\ tagname_template_validator(tmpl).err = "none"
        /\ \E x \in RoundTripVersions, y \in RoundTripVersions, z \in RoundTripVersions,
              how \in Rewritings :
            \E teststr \in {Rewritten(name(Tag(x, y, z), ConfigOf(tmpl)).value, how)} :
                op' = [name |-> "tag_regex", template |-> tmpl, v |-> Tag(x, y, z),
                       how |-> how, teststr |-> teststr,
                       reg |-> tag_regex(ConfigOf(tmpl)),
                       m |-> MatchCompiled(tag_regex(ConfigOf(tmpl)), teststr)]
    /\ UNCHANGED <<repo, remotes>>

NextTemplate == ValidateTemplate \/ RoundTrip \/ TagRegex \/ Return

SpecTemplate == InitTemplate /\ [][NextTemplate]_vars

----------------------------------------------------------------------------
(* Properties of the Tag specification *)

\* a component's value, 0 when it is absent
Normalized(t, f) == IF t[f] = None THEN 0 ELSE t[f]

\* the position of a field in (major, minor, patch)
Significance(f) == CHOOSE i \in 1..Len(Fields) : Fields[i] = f

\* what the increment of t at step is to be, component f
Incremented(t, step, f) ==
    IF Significance(f) < Significance(step) THEN Normalized(t, f)
    ELSE IF f = step THEN Normalized(t, f) + 1
    ELSE 0

\* C1: for every Tag and every step among major, minor and patch,
\* get_incremented returns a Tag whose selected component is the Tag's value
\* (0 if absent) plus 1, whose less significant components are 0 and whose
\* more significant components are the Tag's normalized values; from (1,5,9)
\* major gives (2,0,0), minor gives (1,6,0) and patch gives (1,5,10).
C1_IncrementResets ==
    (op.name = "get_incremented" /\ op.step \in {"major", "minor", "patch"}) =>
        /\ op.err = "none"
        /\ \A f \in {"major", "minor", "patch"} :
               op.out.tag[f] = Incremented(op.tag, op.step, f)
        /\ op.tag = Tag159 =>
               op.out.tag = (CASE op.step = "major" -> Tag(2, 0, 0)
                               [] op.step = "minor" -> Tag(1, 6, 0)
                               [] op.step = "patch" -> Tag(1, 5, 10))

\* C1 witnesses: minor from (1,5,9) gave (1,6,0)
C1_Witness ==
    /\ op.name = "get_incremented"
    /\ op.tag = Tag159
    /\ op.step = "minor"
    /\ op.err = "none"
    /\ op.out.tag = Tag(1, 6, 0)

\* the first field from i at which a and b differ in presence or in value,
\* "" when there is none
RECURSIVE Deciding(_, _, _)
Deciding(a, b, i) ==
    IF i > Len(Fields) THEN ""
    ELSE IF a[Fields[i]] # b[Fields[i]] THEN Fields[i]
    ELSE Deciding(a, b, i + 1)

\* the side the deciding field f gives the greater: 1 for a, -1 for b
Decision(a, b, f) ==
    IF a[f] # None /\ b[f] = None THEN 1
    ELSE IF a[f] = None /\ b[f] # None THEN -1
    ELSE IF a[f] > b[f] THEN 1
    ELSE -1

\* the three-way comparison as the walk over major, minor, patch
Walk(a, b) ==
    IF Deciding(a, b, 1) = "" THEN 0 ELSE Decision(a, b, Deciding(a, b, 1))

\* C2: the three-way comparison returns at the first deciding component of
\* major, minor, patch: the side that alone has it present is greater, two
\* present values compare numerically, and the result is equal only when no
\* component decides; <, <=, ==, !=, >, >= all agree with that result.
C2_ComparisonWalk ==
    op.name = "compare" =>
        /\ op.comp = Walk(op.self, op.other)
        /\ op.lt = (op.comp < 0)
        /\ op.le = (op.comp <= 0)
        /\ op.eq = (op.comp = 0)
        /\ op.ne = (op.comp # 0)
        /\ op.gt = (op.comp > 0)
        /\ op.ge = (op.comp >= 0)

\* C2 witnesses: a present 0 compared greater than an absent component
C2_Witness ==
    /\ op.name = "compare"
    /\ op.self = Tag(1, 0, None)
    /\ op.other = Tag(1, None, None)
    /\ op.comp = 1
    /\ op.gt /\ op.ge /\ op.ne /\ ~op.lt /\ ~op.le /\ ~op.eq

\* C3: the Tag ordering is a strict total order over all Tags, absent
\* components included: a Tag compares equal to itself, compare(a,b) is
\* -compare(b,a), two Tags compare equal only when they have the same
\* present/absent pattern and the same values, and a < b and b < c give a < c.
C3_TotalOrder ==
    op.name = "compare" =>
        /\ op.self = op.other => op.comp = 0
        /\ op.comp = -op.rev
        /\ op.comp = 0 => op.self = op.other
        /\ \A c \in InputTags :
               (op.comp < 0 /\ gen_comp(op.other, c) < 0) => gen_comp(op.self, c) < 0

\* C3 witnesses: two Tags that differ only in a present patch, each way round
C3_Witness ==
    /\ op.name = "compare"
    /\ op.self = Tag(1, 0, None)
    /\ op.other = Tag(1, 0, 0)
    /\ op.comp = -1
    /\ op.rev = 1
    /\ \E c \in InputTags : gen_comp(op.other, c) < 0

\* the components of t that are present
Present(t) == {f \in {"major", "minor", "patch"} : t[f] # None}

\* the presence patterns that respect the significance order
OrderedPatterns == {{}, {"major"}, {"major", "minor"}, {"major", "minor", "patch"}}

\* the error classes of the other failures: the template validator's, the
\* step check's, and the plain Exception
OtherErrors ==
    {tagname_template_validator(<<>>).err,
     get_incremented(Tag(None, None, None), "build").err,
     "Exception"}

\* C14 as first stated: validate fails exactly when minor is present without
\* major or patch without minor or major, and succeeds for every other
\* presence pattern; the failure is a dedicated validation error, an error
\* that no other failure raises, and the Tag is not changed.
C14_DedicatedValidationError ==
    op.name = "validate" =>
        /\ (op.out.err = "none") <=> (Present(op.tag) \in OrderedPatterns)
        /\ op.out.err # "none" => op.out.err \notin OtherErrors
        /\ op.receiver = op.tag

\* C14: validate fails exactly when minor is present without major or patch
\* without minor or major, and succeeds for every other presence pattern
\* ((1,0,1), (1,absent,absent), (1,1,absent), all absent); the failure is a
\* ValueError, the class the template validator and the step check raise as
\* well, and the Tag is not changed or corrected.
C14_ValidateRaisesValueError ==
    op.name = "validate" =>
        /\ (op.out.err = "none") <=> (Present(op.tag) \in OrderedPatterns)
        /\ op.out.err # "none" => op.out.err = "ValueError"
        /\ op.tag \in {Tag(1, 0, 1), Tag(1, None, None), Tag(1, 1, None),
                       Tag(None, None, None)} => op.out.err = "none"
        /\ op.receiver = op.tag

\* C14 witnesses: validate of (1, absent, 0) raised ValueError and left the Tag
C14_Witness ==
    /\ op.name = "validate"
    /\ op.tag = Tag(1, None, 0)
    /\ op.out = [err |-> "ValueError"]
    /\ op.receiver = Tag(1, None, 0)

\* C16: get_incremented under a step that is none of major, minor, patch
\* fails with the invalid-step error (a ValueError) and returns no Tag; the
\* receiver is unchanged.
C16_InvalidStepRaises ==
    (op.name = "get_incremented" /\ op.step \notin {"major", "minor", "patch"}) =>
        /\ op.out = [err |-> "ValueError"]
        /\ op.receiver = op.tag

\* C16 witnesses: get_incremented of (1, absent, absent) under the step build raised
C16_Witness ==
    /\ op.name = "get_incremented"
    /\ op.step = "build"
    /\ op.tag = Tag(1, None, None)
    /\ op.out = [err |-> "ValueError"]
    /\ op.receiver = Tag(1, None, None)

----------------------------------------------------------------------------
(* Properties of get_tags *)

\* the template of cfg compiles to a pattern
Compiles(cfg) == tag_regex(cfg).err = "none"

\* the name n matches the compiled template of cfg
Matches(n, cfg) == ReMatch(tag_regex(cfg).regex, n).ok

\* how many members of the list q satisfy Test
CountIn(q, Test(_)) == Cardinality({i \in 1..Len(q) : Test(q[i])})

\* the list tags holds one Tag for each matching name of the listing r, no more
OnePerMatch(tags, r, cfg) ==
    /\ Len(tags) = Cardinality({i \in 1..Len(r) : Matches(r[i].name, cfg)})
    /\ \A i \in 1..Len(r) :
           Matches(r[i].name, cfg) =>
               LET v == get_from_string(r[i].name, cfg).tag
                   SameTag(t) == t = v
                   SameParse(x) == Matches(x.name, cfg) /\ get_from_string(x.name, cfg).tag = v
               IN CountIn(tags, SameTag) = CountIn(r, SameParse)

Ascending(tags) == \A i \in 1..(Len(tags) - 1) : gen_comp(tags[i], tags[i + 1]) <= 0

ExampleSorted ==
    <<Tag(0, 0, 0), Tag(0, 0, 1), Tag(0, 0, 2), Tag(0, 1, 1), Tag(1, 0, 0), Tag(1, 0, 1)>>

\* C4: get_tags with raise_exception false and sorting requested returns one
\* Tag for each tag name that matches the compiled template and none for the
\* others, in ascending order, whatever the order of the listing; the names
\* 0.0.0, 0.0.1, 0.1.1, 0.0.2, 1.0.1, 1.0.0, foobar give the 6 tags
\* 0.0.0, 0.0.1, 0.0.2, 0.1.1, 1.0.0, 1.0.1.
C4_SkipsAndSorts ==
    (op.name = "get_tags" /\ ~op.raise_exception /\ op.sorted /\ Compiles(op.cfg)) =>
        /\ op.out.err = "none"
        /\ OnePerMatch(op.out.tags, op.before.repo, op.cfg)
        /\ Ascending(op.out.tags)
        /\ (op.before.repo = ExampleRepo /\ op.cfg.tagname_template = DefaultTemplate)
               => op.out.tags = ExampleSorted

\* C4 witnesses: the seven example names gave the six sorted tags
C4_Witness ==
    /\ op.name = "get_tags"
    /\ ~op.raise_exception
    /\ op.sorted
    /\ op.cfg.tagname_template = DefaultTemplate
    /\ op.before.repo = ExampleRepo
    /\ op.out = [err |-> "none", tags |-> ExampleSorted]

\* C5: get_tags with raise_exception true aborts with CannotParseTagError and
\* returns no list when at least one tag name does not match the compiled
\* template; when every name matches it returns all of them.
C5_RaisesOnUnparseable ==
    (op.name = "get_tags" /\ op.raise_exception /\ Compiles(op.cfg)) =>
        IF \E i \in 1..Len(op.before.repo) : ~Matches(op.before.repo[i].name, op.cfg)
        THEN op.out = [err |-> "CannotParseTagError"]
        ELSE /\ op.out.err = "none"
             /\ Len(op.out.tags) = Len(op.before.repo)
             /\ OnePerMatch(op.out.tags, op.before.repo, op.cfg)

\* C5 witnesses: the example names, foobar among them, made get_tags raise
C5_Witness ==
    /\ op.name = "get_tags"
    /\ op.raise_exception
    /\ op.cfg.tagname_template = DefaultTemplate
    /\ op.before.repo = ExampleRepo
    /\ op.out = [err |-> "CannotParseTagError"]

\* C5, the other case: every listed name matched and all came back
C5_AllMatched ==
    /\ op.name = "get_tags"
    /\ op.raise_exception
    /\ Len(op.before.repo) = 2
    /\ op.out.err = "none"
    /\ Len(op.out.tags) = 2

----------------------------------------------------------------------------
(* Properties of create and create_tag *)

\* the names of the listing r
Names(r) == {r[i].name : i \in 1..Len(r)}

\* the tag create() is to make of the Tag t
Rendered(t, cfg) == [name |-> name(t, cfg).value, message |-> message(t, cfg).value]

\* the call a comes before the call b in the calls of the run
Precedes(calls, a, b) ==
    \E i, j \in 1..Len(calls) : i < j /\ calls[i] = a /\ calls[j] = b

Called(calls, a) == \E i \in 1..Len(calls) : calls[i] = a

Str100Message == <<"R", "e", "l", "e", "a", "s", "e", " ">> \o Str100 \o <<".">>

C7_CreatesAndPushes ==
    (/\ op.name = "create"
     /\ name(op.tag, op.cfg).err = "none"
     /\ name(op.tag, op.cfg).value \notin Names(op.before.repo)) =>
        /\ op.err \in {"none", "GitCommandError"}
        /\ op.err = "none" =>
            /\ repo = Append(op.before.repo, Rendered(op.tag, op.cfg))
            /\ op.tag = Tag(1, None, None) /\ op.cfg.tagname_template = DefaultTemplate
                   => repo[Len(repo)] = [name |-> Str100, message |-> Str100Message]
            /\ Called(op.calls, "push") <=> op.cfg.push_after_tagging
            /\ IF op.cfg.push_after_tagging
               THEN remotes = [op.before.remotes EXCEPT ![op.cfg.remote_name] =
                                   @ \cup {Rendered(op.tag, op.cfg)}]
               ELSE remotes = op.before.remotes
        /\ Called(op.calls, "push") =>
            /\ Precedes(op.calls, "createTag", "push")
            /\ Rendered(op.tag, op.cfg) \in {repo[i] : i \in 1..Len(repo)}
        /\ (op.err # "none" /\ ~Called(op.calls, "push")) =>
            /\ repo = op.before.repo
            /\ remotes = op.before.remotes

\* C7 witnesses: create() of (1, absent, absent) made and pushed the tag 1.0.0
C7_Witness ==
    /\ op.name = "create"
    /\ op.tag = Tag(1, None, None)
    /\ op.cfg.tagname_template = DefaultTemplate
    /\ op.cfg.push_after_tagging
    /\ op.err = "none"
    /\ op.calls = <<"listTags", "createTag", "push">>
    /\ Len(repo) = Len(op.before.repo) + 1
    /\ [name |-> Str100, message |-> Str100Message] \in remotes["origin"]
    /\ [name |-> Str100, message |-> Str100Message] \notin op.before.remotes["origin"]

\* the first tag of an empty repository under the floor 17.2.1
FirstName(step) ==
    CASE step = "major" -> <<"1", "7", ".", "0", ".", "0">>
      [] step = "minor" -> <<"0", ".", "2", ".", "0">>
      [] step = "patch" -> <<"0", ".", "0", ".", "1">>

\* C8: create_tag on a repository that has no tags creates a first tag
\* instead of failing: with the default template and the floor 17.2.1 the
\* step major creates 17.0.0, minor 0.2.0 and patch 0.0.1, and afterwards
\* the repository holds exactly that one tag.
C8_FirstTagOfEmptyRepository ==
    (/\ op.name = "create_tag"
     /\ op.pulled = <<>>
     /\ op.cfg.tagname_template = DefaultTemplate
     /\ op.cfg.step \in {"major", "minor", "patch"}
     /\ op.err # "GitCommandError") =>
        /\ op.err = "none"
        /\ TagNames(repo) = <<FirstName(op.cfg.step)>>

\* the greatest of the Tags parsed from the listing r
Greatest(r, cfg) ==
    CHOOSE m \in {get_from_string(n, cfg).tag : n \in Names(r)} :
        \A n \in Names(r) : gen_comp(m, get_from_string(n, cfg).tag) >= 0

\* C9: create_tag on a repository with at least one tag, all of them matching
\* the template, creates exactly one tag: the rendering of get_incremented(m)
\* for the configured step, m being the greatest parsed tag, whatever the
\* order of the listing.
C9_IncrementsGreatest ==
    (/\ op.name = "create_tag"
     /\ op.pulled # <<>>
     /\ Compiles(op.cfg)
     /\ \A n \in Names(op.pulled) : Matches(n, op.cfg)
     /\ op.cfg.step \in {"major", "minor", "patch"}
     /\ op.err # "GitCommandError") =>
        /\ op.err = "none"
        /\ repo = Append(op.pulled,
                         Rendered(get_incremented(Greatest(op.pulled, op.cfg),
                                                  op.cfg.step).tag, op.cfg))

----------------------------------------------------------------------------
(* Properties of the template validator *)

\* the characters of [A-Za-z0-9.:,_-]
AllowedChars ==
    AsciiLetters \cup {AsciiDigits[i] : i \in 1..Len(AsciiDigits)} \cup {".", ":", ",", "_", "-"}

\* the template s contains the text p
Contains(s, p) == \E i \in 0..(Len(s) - Len(p)) : StartsWith(Drop(s, i), p)

RECURSIVE RemoveTokens(_)
\* s with the placeholder tokens {major}, {minor}, {patch} removed
RemoveTokens(s) ==
    IF s = <<>> THEN <<>>
    ELSE IF \E f \in {"major", "minor", "patch"} : StartsWith(s, Placeholder(f))
    THEN RemoveTokens(Drop(s, Len(Placeholder(CHOOSE f \in {"major", "minor", "patch"} :
                                                   StartsWith(s, Placeholder(f))))))
    ELSE <<Head(s)>> \o RemoveTokens(Tail(s))

\* the templates the validator is to reject
ToBeRejected(s) ==
    \/ s = <<>>
    \/ \E i \in 1..Len(RemoveTokens(s)) : RemoveTokens(s)[i] \notin AllowedChars
    \/ Contains(s, PatchTok) /\ ~(Contains(s, MinorTok) /\ Contains(s, MajorTok))
    \/ Contains(s, MinorTok) /\ ~Contains(s, MajorTok)

\* C10: tagname_template_validator fails for every template that is empty,
\* or has a character outside [A-Za-z0-9.:,_-] once the placeholder tokens
\* are removed (a space, ';' and an unknown placeholder included), or has
\* {patch} without both {minor} and {major}, or {minor} without {major}.
C10_RejectsInvalidTemplates ==
    (op.name = "tagname_template_validator" /\ ToBeRejected(op.value)) =>
        op.err = "ValueError"

\* the templates made only of placeholders and characters of [A-Za-z0-9.:,_-]
\* that respect the significance-order rule
ToBeAccepted(s) ==
    /\ s # <<>>
    /\ \A i \in 1..Len(RemoveTokens(s)) : RemoveTokens(s)[i] \in AllowedChars
    /\ Contains(s, PatchTok) => (Contains(s, MinorTok) /\ Contains(s, MajorTok))
    /\ Contains(s, MinorTok) => Contains(s, MajorTok)

\* C11: tagname_template_validator accepts, and returns unchanged, every
\* non-empty template made only of the placeholders and of characters of
\* [A-Za-z0-9.:,_-] that respects the significance-order rule, wherever the
\* placeholders stand and in whatever order, also when one placeholder
\* directly follows another.
C11_AcceptsWellFormedTemplates ==
    (op.name = "tagname_template_validator" /\ ToBeAccepted(op.value)) =>
        /\ op.err = "none"
        /\ op.result = op.value

\* C12: tagname_template_validator requires {major}: every template without
\* the {major} placeholder is rejected, a template of literal characters
\* only included.
C12_MajorRequired ==
    (op.name = "tagname_template_validator" /\ ~Contains(op.value, MajorTok)) =>
        op.err = "ValueError"

\* the mapping v gives 0 to every component the template has no placeholder
\* for: the mappings whose every component a name rendered from tmpl can carry
Carried(tmpl, v) ==
    \A f \in {"major", "minor", "patch"} : ~Contains(tmpl, Placeholder(f)) => v[f] = 0

\* C13: round trip: for every template the validator accepts and every
\* version mapping of non-negative integers, compiling the template succeeds
\* and parsing the name rendered from the template and the mapping gives a
\* Tag whose versiondict is the mapping.  Stated for the mappings the
\* rendered name can carry: a component without a placeholder is 0.
C13_RoundTrip ==
    (op.name = "round_trip" /\ Carried(op.template, op.v)) =>
        /\ op.compiled = "none"
        /\ op.parsed.err = "none"
        /\ \A f \in {"major", "minor", "patch"} : versiondict(op.parsed.tag)[f] = op.v[f]

----------------------------------------------------------------------------
(* Properties of the error handling *)

\* the value int() gives for the group f of the match of tagstring, None
\* when the template of cfg has no placeholder f
Captured(tagstring, cfg, f) ==
    IF Contains(TagnameTemplate(cfg).value, Placeholder(f))
    THEN StrToInt(ReMatch(tag_regex(cfg).regex, tagstring).groups[f])
    ELSE None

\* C15: get_from_string fails with CannotParseTagError when the tag string
\* does not match the compiled template pattern, and otherwise returns a Tag
\* whose components are the integer values of the captured groups, with the
\* components whose placeholder is not in the template absent.
C15_ParseOrCannotParse ==
    (op.name = "get_from_string" /\ Compiles(op.cfg)) =>
        IF Matches(op.tagstring, op.cfg)
        THEN /\ op.out.err = "none"
             /\ \A f \in {"major", "minor", "patch"} :
                    op.out.tag[f] = Captured(op.tagstring, op.cfg, f)
        ELSE op.out.err = "CannotParseTagError"

\* the template of cfg is one the validator rejects
Malformed(cfg) == TagnameTemplate(cfg).err # "none"

\* the operation of op read the template: get_tags reads it once for each
\* tag of the repository, get_from_string always
UsedTemplate ==
    \/ op.name = "get_from_string"
    \/ op.name = "get_tags" /\ Len(op.before.repo) > 0

\* C17: when the configured tag-name template is malformed, get_from_string
\* and get_tags, with either value of raise_exception, surface the template
\* error (the validator's ValueError) to the caller; it is never turned into
\* a skipped tag, an empty result or another error type.
C17_TemplateErrorSurfaces ==
    (UsedTemplate /\ Malformed(op.cfg)) => op.out.err = TagnameTemplate(op.cfg).err

\* how many times the call a is among the calls
Times(calls, a) == Cardinality({i \in 1..Len(calls) : calls[i] = a})

\* C18: a failure of a VCS call aborts the run and reaches the caller as it
\* is (the GitCommandError of the VCS): the failing call is made once and is
\* the last call of the run; if the pull of create_tag fails, no tags are
\* listed, no tag is created and nothing is pushed; if createTag fails, no
\* tag is added and no push is made; a failed push leaves the remotes alone.
C18_VcsFailureAborts ==
    (op.name \in {"create", "create_tag"} /\ op.fail # "none") =>
        /\ op.err = "GitCommandError"
        /\ op.calls[Len(op.calls)] = op.fail
        /\ Times(op.calls, op.fail) = 1
        /\ remotes = op.before.remotes
        /\ op.fail = "pull" =>
            /\ op.calls = <<"pull">>
            /\ repo = op.before.repo
        /\ op.fail = "createTag" =>
            /\ ~Called(op.calls, "push")
            /\ repo = (IF op.name = "create_tag" THEN op.pulled ELSE op.before.repo)

\* C18 witnesses: createTag failed in a create() that was to push, and the
\* pull failed in a create_tag
C18_Witness ==
    /\ op.name = "create"
    /\ op.fail = "createTag"
    /\ op.cfg.push_after_tagging
    /\ op.err = "GitCommandError"
    /\ op.calls = <<"listTags", "createTag">>
    /\ repo = op.before.repo

\* the Tag parsed from the name n under the default template
Parsed(n, cfg) == get_from_string(n, cfg).tag

Str000 == <<"0", ".", "0", ".", "0">>

\* C19: in create_tag with pull_before_tagging the pull from the remote named
\* remote_name is made before the tags are listed, and the tags it brought
\* take part in the maximum: the listing read is the one after the pull and,
\* under the default template, the new tag is greater than every tag of the
\* remote (remote tag 0.0.0, empty repository, step major, push: the
\* repository and the remote both end with 0.0.0 and 1.0.0); without
\* pull_before_tagging no pull is made.
C19_PullBeforeListing ==
    op.name = "create_tag" =>
        IF op.cfg.pull_before_tagging
        THEN /\ op.calls[1] = "pull"
             /\ Times(op.calls, "pull") = 1
             /\ Called(op.calls, "listTags") => Precedes(op.calls, "pull", "listTags")
             /\ op.fail # "pull" =>
                 /\ Names(op.pulled) =
                        Names(op.before.repo) \cup NameSet(op.before.remotes[op.cfg.remote_name])
                 /\ \A i \in 1..Len(op.before.repo) : op.pulled[i] = op.before.repo[i]
             /\ (op.err = "none" /\ op.cfg.tagname_template = DefaultTemplate) =>
                 /\ Len(repo) = Len(op.pulled) + 1
                 /\ \A i \in 1..Len(op.pulled) : repo[i] = op.pulled[i]
                 /\ \A n \in NameSet(op.before.remotes[op.cfg.remote_name]) :
                        Matches(n, op.cfg) =>
                            gen_comp(Parsed(repo[Len(repo)].name, op.cfg),
                                     Parsed(n, op.cfg)) > 0
             /\ (/\ op.before.repo = <<>>
                 /\ NameSet(op.before.remotes["origin"]) = {Str000}
                 /\ op.cfg.tagname_template = DefaultTemplate
                 /\ op.cfg.step = "major"
                 /\ op.cfg.push_after_tagging
                 /\ op.fail = "none") =>
                     /\ op.err = "none"
                     /\ TagNames(repo) = <<Str000, Str100>>
                     /\ NameSet(remotes["origin"]) = {Str000, Str100}
        ELSE /\ ~Called(op.calls, "pull")
             /\ op.pulled = op.before.repo

\* C19 witnesses: the run of test_pull_and_push
C19_Witness ==
    /\ op.name = "create_tag"
    /\ op.cfg.pull_before_tagging
    /\ op.cfg.push_after_tagging
    /\ op.cfg.step = "major"
    /\ op.before.repo = <<>>
    /\ op.calls = <<"pull", "listTags", "listTags", "createTag", "push">>
    /\ TagNames(repo) = <<Str000, Str100>>
    /\ NameSet(remotes["origin"]) = {Str000, Str100}

----------------------------------------------------------------------------
(* The racing specification: two runs of Tag.create on one repository, each *)
(* taking the statements of create one at a time.  op holds the runs.  The  *)
(* VCS decides whether a createTag or a push fails; a createTag of a name   *)
(* that has come in since the check either fails (git refuses the name) or  *)
(* leaves the tag that is there.                                            *)

Procs == {1, 2}

\* a run that has not been started
NotStarted == [pc |-> "start"]

\* msg = self.message; name = self.name
Rendering(t, cfg, nm, msg) ==
    IF msg.err # "none"
    THEN [pc |-> "done", tag |-> t, cfg |-> cfg, err |-> msg.err, calls |-> <<>>]
    ELSE [pc |-> "check", tag |-> t, cfg |-> cfg, err |-> "none", calls |-> <<>>,
          nm |-> nm.value, msg |-> msg.value]

\* the names the other runs have checked and not yet created
Pending(runs, p) == {runs[q].nm : q \in {q \in Procs \ {p} : runs[q].pc = "create"}}

\* the check looking at the names the other runs are about to create as well
NameTaken_Locked(nm, r, pending) ==
    \/ \E i \in 1..Len(r) : r[i].name = nm
    \/ nm \in pending

\* name in [t.name for t in self.config.repo.tags]: the tags of the
\* repository are all the check reads
NameTaken(nm, r, pending) == \E i \in 1..Len(r) : r[i].name = nm

\* if name in [...]: raise Exception(); seen keeps the names that were listed
AfterCheck(run, taken, r) ==
    IF taken
    THEN [run EXCEPT !.pc = "done", !.err = "Exception", !.calls = <<"listTags">>]
             @@ [seen |-> {r[i].name : i \in 1..Len(r)}]
    ELSE [run EXCEPT !.pc = "create", !.calls = <<"listTags">>]
             @@ [seen |-> {r[i].name : i \in 1..Len(r)}]

\* the repository after a createTag the VCS carried out
WithTag(r, newtag) ==
    IF \E i \in 1..Len(r) : r[i].name = newtag.name THEN r ELSE Append(r, newtag)

\* newtag = self.config.repo.create_tag(name, message=msg)
AfterCreateTag(run, fail) ==
    IF fail = "createTag"
    THEN [run EXCEPT !.pc = "done", !.err = "GitCommandError",
                     !.calls = @ \o <<"createTag">>]
    ELSE [run EXCEPT !.pc = IF run.cfg.push_after_tagging THEN "push" ELSE "done",
                     !.calls = @ \o <<"createTag">>]

\* self.config.repo.remote(name=self.config.remote_name).push(newtag)
AfterPush(run, fail) ==
    [run EXCEPT !.pc = "done", !.calls = @ \o <<"push">>,
                !.err = IF fail = "push" THEN "GitCommandError" ELSE "none"]

InitRace ==
    /\ repo \in {q \in InitialRepos : Len(q) <= 1}
    /\ remotes \in InitialRemotes
    /\ op = [name |-> "race", runs |-> [p \in Procs |-> NotStarted]]

\* the run p is called and renders its message and its name
Begin(p) ==
    /\ op.runs[p].pc = "start"
    /\ \E t \in CreateInputs, cfg \in TagConfigs :
        op' = [op EXCEPT !.runs[p] = Rendering(t, cfg, name(t, cfg), message(t, cfg))]
    /\ UNCHANGED <<repo, remotes>>

\* the run p lists the tags and looks for its name
Check(p) ==
    /\ op.runs[p].pc = "check"
    /\ op' = [op EXCEPT !.runs[p] =
                 AfterCheck(@, NameTaken(@.nm, repo, Pending(op.runs, p)), repo)]
    /\ UNCHANGED <<repo, remotes>>

\* the run p calls createTag
CreateStep(p) ==
    /\ op.runs[p].pc = "create"
    /\ \E fail \in {"none", "createTag"} :
        /\ op' = [op EXCEPT !.runs[p] = AfterCreateTag(@, fail)]
        /\ repo' = IF fail = "createTag" THEN repo
                   ELSE WithTag(repo, [name |-> op.runs[p].nm, message |-> op.runs[p].msg])
    /\ UNCHANGED remotes

\* the run p pushes its tag
PushStep(p) ==
    /\ op.runs[p].pc = "push"
    /\ \E fail \in {"none", "push"} :
        /\ op' = [op EXCEPT !.runs[p] = AfterPush(@, fail)]
        /\ remotes' = IF fail = "push" THEN remotes
                      ELSE Pushed(remotes, op.runs[p].cfg.remote_name,
                                  [name |-> op.runs[p].nm, message |-> op.runs[p].msg])
    /\ UNCHANGED repo

NextRace == \E p \in Procs : Begin(p) \/ Check(p) \/ CreateStep(p) \/ PushStep(p)

SpecRace == InitRace /\ [][NextRace]_vars

\* the run is past its check and was let through
LetThrough(run) == run.pc \in {"create", "push", "done"} /\ "seen" \in DOMAIN run
                       /\ run.err # "Exception"

\* the run has made the call a
Made(run, a) == \E i \in 1..Len(run.calls) : run.calls[i] = a

\* C20: the existence check and the createTag call of create() are separate
\* steps with no lock: what a run's check decides depends on the tags listed
\* at that moment only, so a run raises the error of the existing name exactly
\* when its name was listed then, whatever the other run is about to create;
\* a run the check let through goes on to createTag, and to the push when
\* push_after_tagging is set and createTag went through, and never raises
\* the error of the existing name.
C20_CheckThenCreateNotAtomic ==
    op.name = "race" =>
        \A p \in Procs :
            /\ "seen" \in DOMAIN op.runs[p] =>
                   (op.runs[p].err = "Exception" <=> op.runs[p].nm \in op.runs[p].seen)
            /\ LetThrough(op.runs[p]) =>
                /\ op.runs[p].pc # "create" => Made(op.runs[p], "createTag")
                /\ op.runs[p].err \in {"none", "GitCommandError"}
                /\ (op.runs[p].pc = "done" /\ op.runs[p].err = "none") =>
                       (Made(op.runs[p], "push") <=> op.runs[p].cfg.push_after_tagging)

\* C20 witnesses: two runs rendered the same name, both checked before
\* either created, both called createTag and pushed, neither raised the
\* error of the existing name
C20_Witness ==
    /\ op.name = "race"
    /\ op.runs[1].pc = "done" /\ op.runs[2].pc = "done"
    /\ "seen" \in DOMAIN op.runs[1] /\ "seen" \in DOMAIN op.runs[2]
    /\ op.runs[1].nm = op.runs[2].nm
    /\ op.runs[1].nm \notin op.runs[1].seen
    /\ op.runs[2].nm \notin op.runs[2].seen
    /\ Made(op.runs[1], "createTag") /\ Made(op.runs[2], "createTag")
    /\ Made(op.runs[1], "push") /\ Made(op.runs[2], "push")
    /\ op.runs[1].err # "Exception" /\ op.runs[2].err # "Exception"

----------------------------------------------------------------------------
(* Properties of the compiled pattern *)

\* how many times the token p stands in the template s
Occurrences(s, p) == Cardinality({i \in 0..(Len(s) - Len(p)) : StartsWith(Drop(s, i), p)})

\* the placeholders of the template
PlaceholdersOf(tmpl) == {f \in {"major", "minor", "patch"} : Contains(tmpl, Placeholder(f))}

\* s is one or more digits
IsDigits(s) == Len(s) >= 1 /\ \A i \in 1..Len(s) : s[i] \in DigitClass

Str012 == <<"0", ".", "1", ".", "2">>

\* C21: the pattern compiled from a template has one named group of one or
\* more digits for each placeholder of the template and none for a
\* placeholder it lacks, and each '.' of the template matches a '.' only: a
\* rendered name matches, each group holding one or more digits; the name with
\* another character in place of its dots, or with a letter in place of its
\* digits, does not; under the default template 0.1.2 matches with the
\* groups 0, 1 and 2 and 0x1x2 does not match.
C21_CompiledPattern ==
    (op.name = "tag_regex" /\ op.reg.err = "none") =>
        /\ \A f \in {"major", "minor", "patch"} :
               Cardinality({i \in 1..Len(op.reg.regex) : op.reg.regex[i] = GroupAtom(f)})
                   = Occurrences(op.template, Placeholder(f))
        /\ \A i \in 1..Len(op.reg.regex) : op.reg.regex[i] # "."
        /\ Cardinality({i \in 1..Len(op.reg.regex) : op.reg.regex[i] = EscapedDot})
               = Occurrences(op.template, <<".">>)
        /\ op.how = "same" =>
            /\ op.m.ok
            /\ DOMAIN op.m.groups = PlaceholdersOf(op.template)
            /\ \A f \in DOMAIN op.m.groups : IsDigits(op.m.groups[f])
        /\ (op.how \in {"dot to x", "dot to 7"} /\ Contains(op.template, <<".">>)) =>
               ~op.m.ok
        /\ (op.how = "digit to a" /\ PlaceholdersOf(op.template) # {}) => ~op.m.ok
        /\ (op.template = DefaultTemplate /\ op.how = "same") =>
               op.m.groups = [f \in {"major", "minor", "patch"} |-> IntToStr(op.v[f])]

\* C21 witnesses: under the default template 0.1.2 matched with the groups
\* 0, 1 and 2
C21_Witness ==
    /\ op.name = "tag_regex"
    /\ op.template = DefaultTemplate
    /\ op.teststr = Str012
    /\ op.m.ok
    /\ op.m.groups = [major |-> <<"0">>, minor |-> <<"1">>, patch |-> <<"2">>]

----------------------------------------------------------------------------
(* The object specification: Tags as objects, for sequences of calls on    *)
(* the same Tag.  op holds the objects: objs[i] are the attributes of the   *)
(* i-th Tag constructed, built[i] what they were at its construction, and   *)
(* call the last call made.                                                 *)

\* most Tag objects constructed
MaxObjects == 3

InitObjects ==
    /\ repo = <<>>
    /\ remotes = [n \in RemoteNames |-> {}]
    /\ \E t \in InputTags :
        op = [name |-> "objects", objs |-> <<t>>, built |-> <<t>>,
              call |-> [name |-> "__init__", returned |-> 1]]

\* the objects after objs[i].get_incremented(): the receiver, and the Tag
\* the constructor made of kwargs, if the method came to it
ObjectsAfter(objs, i, receiver, out) ==
    IF out.err # "none" THEN [objs EXCEPT ![i] = receiver]
    ELSE Append([objs EXCEPT ![i] = receiver], out.tag)

\* objs[i].get_incremented() under the step
IncrementObject ==
    /\ op.name = "objects"
    /\ Len(op.objs) < MaxObjects
    /\ \E i \in 1..Len(op.objs), step \in Steps \cup {"build"} :
        \E out \in {get_incremented(op.objs[i], step)} :
            op' = [name |-> "objects",
                   objs |-> ObjectsAfter(op.objs, i,
                                         get_incremented_self(op.objs[i], step), out),
                   built |-> IF out.err = "none" THEN Append(op.built, out.tag)
                             ELSE op.built,
                   call |-> [name |-> "get_incremented", self |-> i, step |-> step,
                             err |-> out.err, objects |-> Len(op.objs),
                             returned |-> IF out.err = "none" THEN Len(op.objs) + 1
                                          ELSE 0]]
    /\ UNCHANGED <<repo, remotes>>

\* d = objs[i].versiondict; d[f] = x
StoreIntoVersiondict ==
    /\ op.name = "objects"
    /\ \E i \in 1..Len(op.objs), f \in {"major", "minor", "patch"}, x \in 0..MaxVer :
        \E d \in {[versiondict(op.objs[i]) EXCEPT ![f] = x]} :
            op' = [op EXCEPT !.objs[i] = versiondict_self(op.objs[i], d),
                             !.call = [name |-> "versiondict", self |-> i, dict |-> d]]
    /\ UNCHANGED <<repo, remotes>>

NextObjects == IncrementObject \/ StoreIntoVersiondict

SpecObjects == InitObjects /\ [][NextObjects]_vars

----------------------------------------------------------------------------
(* Properties of versiondict and name *)

\* C23: versiondict never fails and maps each of major, minor and patch to
\* the Tag's value when it is present and to 0 when it is absent, and name
\* renders the template from that mapping, an absent component as 0: under
\* the default template the name is the three numbers of the mapping with
\* dots between, so Tag(major=1) is named 1.0.0 as Tag(1,0,0) is, and
\* Tag(1,2,3) is named 1.2.3.
C23_VersiondictAndName ==
    op.name = "name" =>
        /\ DOMAIN op.versiondict = {"major", "minor", "patch"}
        /\ \A f \in {"major", "minor", "patch"} :
               op.versiondict[f] = (IF op.tag[f] = None THEN 0 ELSE op.tag[f])
        /\ op.out.err = "none"
        /\ op.template = DefaultTemplate =>
               op.out.value = IntToStr(op.versiondict["major"]) \o <<".">>
                                  \o IntToStr(op.versiondict["minor"]) \o <<".">>
                                  \o IntToStr(op.versiondict["patch"])
        /\ op.template = MinorMajorTemplate =>
               op.out.value = IntToStr(op.versiondict["minor"])
                                  \o IntToStr(op.versiondict["major"])
        /\ op.template = <<"V">> \o MajorTok =>
               op.out.value = <<"V">> \o IntToStr(op.versiondict["major"])
        /\ (op.template = DefaultTemplate
                /\ op.tag \in {Tag(1, None, None), Tag(1, 0, 0), Tag(1, None, 0)}) =>
               op.out.value = Str100
        /\ (op.template = DefaultTemplate /\ op.tag = Tag123) => op.out.value = Str123

\* C23 witnesses: Tag(major=1) was named 1.0.0 under the default template
C23_Witness ==
    /\ op.name = "name"
    /\ op.tag = Tag(1, None, None)
    /\ op.template = DefaultTemplate
    /\ op.versiondict = [major |-> 1, minor |-> 0, patch |-> 0]
    /\ op.out = [err |-> "none", value |-> Str100]

----------------------------------------------------------------------------
(* The sequence specification: create_tag run after run under the default   *)
(* template, no VCS call failing, on a repository that starts with tags     *)
(* whose names all match the template.  op counts the runs.                 *)

\* most runs of a sequence
MaxRuns == 3

Str011 == <<"0", ".", "1", ".", "1">>
Str002x == <<"0", ".", "0", ".", "2", "x">>

\* names that match the default template
SequencePool == {Str001, Str100, Str011, Str002x}

\* the configs of the runs: any step without pull and push, and the step
\* major with both
SequenceConfigs ==
    {cfg \in Configs :
        /\ cfg.tagname_template = DefaultTemplate
        /\ cfg.step \in Steps
        /\ cfg.push_after_tagging = cfg.pull_before_tagging
        /\ cfg.pull_before_tagging => cfg.step = "major"}

InitSequence ==
    /\ repo \in {q \in ListingsUpTo(MaxInitTags, SequencePool) : NoRepeat(q) /\ q # <<>>}
    /\ remotes \in InitialRemotes
    /\ op = [name |-> "sequence", runs |-> 0, pulls |-> 0, start |-> Len(repo)]

\* the next run of create_tag(config)
RunCreateTag ==
    /\ op.name = "sequence"
    /\ op.runs < MaxRuns
    /\ \E cfg \in SequenceConfigs :
        \E r1 \in IF cfg.pull_before_tagging
                  THEN Pulled(repo, remotes, cfg.remote_name) ELSE {repo} :
            \E out \in {create_tag(cfg, repo, r1, remotes, "none")} :
                /\ repo' = out.repo
                /\ remotes' = out.remotes
                /\ op' = [name |-> "sequence", runs |-> op.runs + 1,
                          pulls |-> op.pulls + (IF cfg.pull_before_tagging THEN 1 ELSE 0),
                          start |-> op.start, cfg |-> cfg, before |-> Before,
                          pulled |-> r1, err |-> out.err, calls |-> out.calls]

NextSequence == RunCreateTag

SpecSequence == InitSequence /\ [][NextSequence]_vars

\* C24: under the default template, from a repository with at least one tag
\* and every name matching the template, every run of a sequence of
\* create_tag runs (any step in each run) succeeds and adds exactly one tag,
\* whose version is greater than that of every tag there was before the
\* run, the pulled ones included; the error of the existing name is never
\* raised, every name still matches, and without a pull the repository holds
\* one tag more for each run.
C24_SequentialRunsSucceed ==
    (op.name = "sequence" /\ op.runs > 0) =>
        /\ op.err = "none"
        /\ Len(repo) = Len(op.pulled) + 1
        /\ \A i \in 1..Len(op.pulled) : repo[i] = op.pulled[i]
        /\ Names(op.before.repo) \subseteq Names(op.pulled)
        /\ repo[Len(repo)].name \notin Names(op.pulled)
        /\ \A n \in Names(op.pulled) :
               gen_comp(Parsed(repo[Len(repo)].name, op.cfg), Parsed(n, op.cfg)) > 0
        /\ \A n \in Names(repo) : Matches(n, op.cfg)
        /\ Len(repo) = op.start + op.runs + (IF op.pulls > 0 THEN 1 ELSE 0)

\* C24 witnesses: the third run of a sequence without a pull, on a repository
\* that began with one tag
C24_Witness ==
    /\ op.name = "sequence"
    /\ op.runs = 3
    /\ op.pulls = 0
    /\ op.start = 1
    /\ op.err = "none"
    /\ Len(repo) = 4
    /\ repo[1].name = Str001
    /\ TagNames(repo)[4] = Str100

----------------------------------------------------------------------------
(* Properties of the match at the start of the string *)

\* the numbers of the versions looked for at the start of a name
VersionDigits == 0..9

\* the name of the version (a, b, c) under the default template
DefaultName(a, b, c) == IntToStr(a) \o <<".">> \o IntToStr(b) \o <<".">> \o IntToStr(c)

\* s is the name of (a, b, c) followed by further characters
Continues(s, a, b, c) ==
    StartsWith(s, DefaultName(a, b, c)) /\ Len(s) > Len(DefaultName(a, b, c))

\* the character of s behind the name of (a, b, c)
NextChar(s, a, b, c) == s[Len(DefaultName(a, b, c)) + 1]

\* the Tags of the list tags
TagSet(tags) == {tags[i] : i \in 1..Len(tags)}

----------------------------------------------------------------------------
(* Properties of a failed push *)

\* the tags the run found before createTag: those after the pull in create_tag
Found == IF op.name = "create_tag" THEN op.pulled ELSE op.before.repo

\* C26: create() has no rollback: when push_after_tagging is true and the
\* push fails after createTag went through, the error of the push reaches
\* the caller, the remotes are as before, and the new tag stays among the
\* repository's tags, so that a later create() of the same Tag finds the name
\* there and raises the error of the existing name.
C26_NoRollback ==
    (op.name \in {"create", "create_tag"} /\ op.fail = "push") =>
        /\ op.cfg.push_after_tagging
        /\ op.err = "GitCommandError"
        /\ Precedes(op.calls, "createTag", "push")
        /\ remotes = op.before.remotes
        /\ Len(repo) = Len(Found) + 1
        /\ \A i \in 1..Len(Found) : repo[i] = Found[i]
        /\ repo[Len(repo)].name \notin Names(Found)
        /\ op.name = "create" =>
            /\ repo[Len(repo)] = Rendered(op.tag, op.cfg)
            /\ create(op.tag, op.cfg, repo, remotes, "none").err = "Exception"
            /\ create(op.tag, op.cfg, repo, remotes, "none").repo = repo

\* C26 witnesses: the push of 1.0.0 failed in create(), and 1.0.0 is among
\* the tags of the repository and not on the remote
C26_Witness ==
    /\ op.name = "create"
    /\ op.fail = "push"
    /\ op.tag = Tag(1, None, None)
    /\ op.cfg.tagname_template = DefaultTemplate
    /\ op.err = "GitCommandError"
    /\ Str100 \in Names(repo)
    /\ Str100 \notin Names(op.before.repo)
    /\ Str100 \notin NameSet(remotes["origin"])


============================================================================
